---- MODULE Spec2Model ----
(***************************************************************************)
(* Model of the code intelligence GraphQL query resolver                   *)
(* (enterprise/internal/codeintel/resolvers/graphql/query.go).             *)
(*                                                                         *)
(* Go values are modelled as follows.                                      *)
(*   - a pointer to an int32 or a string is a sequence of length <= 1:     *)
(*     <<>> is nil and <<v>> points to v;                                  *)
(*   - a string is a sequence of naturals, <<>> being "";                  *)
(*   - an error is a TLA+ string, NoErr being the nil error;               *)
(*   - a handler's (value, error) result is a record whose isNil field     *)
(*     tells whether the value is nil.                                     *)
(***************************************************************************)
EXTENDS Integers, Sequences, FiniteSets, TLC

VARIABLES
    dumpID,     \* the bundle the query resolver is bound to
    nRefs,      \* how many references that bundle holds for the symbol
    nDiags,     \* how many diagnostics that bundle holds
    op,         \* the operation last invoked on the query resolver
    args,       \* its arguments
    res,        \* its (value, error) result
    calls,      \* the backend calls made during that invocation, in order
    navOp,      \* <<operation, i>>: the operation last invoked on range i of the NavView result
    navRes,     \* its (value, error) result
    pgState,    \* a caller following cursors: "idle", "paging", "done" or "failed"
    pgAcc,      \* the locations that caller has collected so far
    pgPages,    \* a list of the page sizes that caller has received
    \* concurrent References queries sharing one location resolver
    unresolvable, \* the (bundle, path) keys whose commit cannot be resolved
    qPc,        \* per query: "idle", "resolving" or "done"
    qArgs,      \* per query: the arguments of its References call
    qConn,      \* per query: the connection its References call returned
    qOut,       \* per query: the resolved locations, by index
    tPc,        \* per query and index: "todo", "locked", "lookup" or "done"
    memo,       \* the location resolver's memo table, by key
    mutex,      \* <<q, i>>: the resolution holding the memo table's lock; <<0, 0>>: none
    lookups,    \* per key: the commit-resolution lookups performed
    \* package ratelimit: a NonBlockingLimiter
    lBurst,     \* the burst size of its rate.Limiter
    lTokens,    \* the tokens its rate.Limiter holds
    lCall,      \* the last Limit call: n, the tokens before and after, the error
    \* package ratelimit: a Monitor
    mon,        \* its fields known, limit, remaining, reset and retry
    clock,      \* what its clock returns
    ticks,      \* how often the clock has advanced
    mCall,      \* the last call on it: the method, its arguments and what it returned
    mLast,      \* the headers of the last response given to Update
    mLastLive,  \* the same, of the last response not served from a cache
    mLastGood,  \* the same, of the last such response with all rate limit headers
    mRetry,     \* the Retry-After deadline pending, ZeroTime when there is none
    mRetryAny,  \* the same, with the responses served from a cache counted in
    \* package ratelimit: a Monitor called from several goroutines
    cMu,        \* the goroutine holding c.mu, Unlocked when none does
    cMon,       \* known, and for limit, remaining, reset and retry the Update
                \* call whose response the stored value was taken from
    cPc,        \* per goroutine: the statement it is at
    cH,         \* per goroutine: the response of the Update call it runs
    cSeen,      \* per goroutine: what its Get or RecommendedWaitForBackgroundOp
                \* call has read of limit, remaining and reset
    cIssued     \* the Update calls made so far

queryVars == <<dumpID, nRefs, nDiags, op, args, res, calls, navOp, navRes, pgState, pgAcc, pgPages>>

cacheVars == <<unresolvable, qPc, qArgs, qConn, qOut, tPc, memo, mutex, lookups>>

limiterVars == <<lBurst, lTokens, lCall>>

monitorVars == <<mon, clock, ticks, mCall, mLast, mLastLive, mLastGood, mRetry, mRetryAny>>

concVars == <<cMu, cMon, cPc, cH, cSeen, cIssued>>

rateVars == <<limiterVars, monitorVars, concVars>>

vars == <<queryVars, cacheVars, rateVars>>

\* ------------------------------------------------------------------ bounds
MaxRefs == 3
MaxDiags == 2
MaxDefs == 2
MaxRanges == 2
MaxQueries == 2
MaxBurst == 3
MaxDebt == 3
MaxTicks == 2
MaxThreads == 2
MaxUpdates == 3

\* --------------------------------------------------------- program constants
DefaultReferencesPageSize == 100
DefaultDiagnosticsPageSize == 100
ErrIllegalLimit == "illegal limit"
ErrUnimplemented == "unimplemented"

NoErr == "nil"
ErrDecode == "illegal cursor"
ErrBackend == "backend error"
ErrBundleNotFound == "bundle not found"
ErrForeignCursor == "cursor of another bundle"
BackendErrs == {NoErr, ErrBackend, ErrBundleNotFound}

CursorVersion == 1

Bundles == {1, 2}
SymbolPos == <<10, 3>>
Positions == {<<0, 0>>, SymbolPos}

\* ------------------------------------------------------------------ helpers
Min(a, b) == IF a <= b THEN a ELSE b

derefInt32(val, defaultValue) == IF val = <<>> THEN defaultValue ELSE val[1]

strPtr(val) == IF val = <<>> THEN <<>> ELSE <<val>>

\* The wire form of a raw cursor: a version tag followed by the raw cursor's
\* symbols, each shifted by one so that 0 never occurs in a well-formed payload.
encodeString(raw) == <<CursorVersion>> \o [i \in 1..Len(raw) |-> raw[i] + 1]

WellFormed(wire) ==
    /\ Len(wire) >= 1
    /\ wire[1] = CursorVersion
    /\ \A i \in 2..Len(wire) : wire[i] >= 1

decodeCursor(val) ==
    IF val = <<>> THEN [val |-> <<>>, err |-> NoErr]
    ELSE IF val[1] = <<>> THEN [val |-> <<>>, err |-> NoErr]
    ELSE IF ~WellFormed(val[1]) THEN [val |-> <<>>, err |-> ErrDecode]
    ELSE [val |-> [i \in 1..(Len(val[1]) - 1) |-> val[1][i + 1] - 1], err |-> NoErr]

encodeCursor(val) == IF val = <<>> THEN <<>> ELSE <<encodeString(val[1])>>

\* lsif range (start line, start character, end line, end character) to the
\* GraphQL range
convertRange(r) ==
    [start |-> [line |-> r[1], character |-> r[2]],
     end |-> [line |-> r[3], character |-> r[4]]]

ZeroRange == <<0, 0, 0, 0>>
LsifRanges == {ZeroRange, <<10, 3, 10, 6>>}

\* ------------------------------------------------------- handler results
NilResult(err) ==
    [err |-> err, isNil |-> TRUE, kind |-> "nil", locations |-> <<>>,
     cursor |-> <<>>, diagnostics |-> <<>>, totalCount |-> 0, text |-> 0,
     range |-> convertRange(ZeroRange), rangeViews |-> <<>>]

NewLocationConnectionResolver(locations, cursor) ==
    [NilResult(NoErr) EXCEPT !.isNil = FALSE, !.kind = "locations",
                             !.locations = locations, !.cursor = cursor]

NewHoverResolver(text, r) ==
    [NilResult(NoErr) EXCEPT !.isNil = FALSE, !.kind = "hover",
                             !.text = text, !.range = r]

NewDiagnosticConnectionResolver(diagnostics, totalCount) ==
    [NilResult(NoErr) EXCEPT !.isNil = FALSE, !.kind = "diagnostics",
                             !.diagnostics = diagnostics, !.totalCount = totalCount]

navViewConnectionResolver(rangeViews) ==
    [NilResult(NoErr) EXCEPT !.isNil = FALSE, !.kind = "navView",
                             !.rangeViews = rangeViews]

\* What the caller reads from a location connection: the cursor in wire form.
PageInfo(conn) ==
    [endCursor |-> encodeCursor(conn.cursor), hasNextPage |-> conn.cursor # <<>>]

\* ------------------------------------------------------------ the backend
RawLocation(b, i) == [dumpID |-> b, path |-> (i + 1) \div 2, range |-> i]

LocationsOf(b, n) == [i \in 1..n |-> RawLocation(b, i)]

\* A backend call as the model records it: the operation, what it was given and
\* what it answered.
BackendCall(name, line, character, limit, cursor, out) ==
    [op |-> name, line |-> line, character |-> character, limit |-> limit,
     cursor |-> cursor, out |-> out, err |-> out.err]

\* resolvers.QueryResolver.References of the resolver bound to bundle b: the
\* references are ordered and a page is the limit items after the cursor's offset.
BackendReferences(b, line, character, limit, cursor, fail) ==
    IF fail # NoErr THEN [locations |-> <<>>, cursor |-> <<>>, err |-> fail]
    ELSE IF cursor # <<>> /\ Len(cursor) # 2
         THEN [locations |-> <<>>, cursor |-> <<>>, err |-> ErrBackend]
    ELSE IF cursor # <<>> /\ cursor[1] # b
         THEN [locations |-> <<>>, cursor |-> <<>>, err |-> ErrForeignCursor]
    ELSE LET all == IF <<line, character>> = SymbolPos
                    THEN LocationsOf(b, nRefs) ELSE <<>>
             off == IF cursor = <<>> THEN 0 ELSE cursor[2]
             end == Min(off + limit, Len(all))
         IN  [locations |-> SubSeq(all, off + 1, end),
              cursor |-> IF end < Len(all) THEN <<b, end>> ELSE <<>>,
              err |-> NoErr]

Diagnostic(b, i) == [dumpID |-> b, path |-> i, severity |-> 1 + (i % 4)]

\* resolvers.QueryResolver.Diagnostics of the resolver bound to bundle b: the
\* first limit diagnostics and the number of diagnostics the bundle holds.
BackendDiagnostics(b, limit, fail) ==
    IF fail # NoErr THEN [diagnostics |-> <<>>, totalCount |-> 0, err |-> fail]
    ELSE [diagnostics |-> [i \in 1..Min(limit, nDiags) |-> Diagnostic(b, i)],
          totalCount |-> nDiags, err |-> NoErr]

\* ------------------------------------------------- the query resolver
\* Each handler yields its result and the backend calls it made.  a is the
\* argument record; out (or fail, n) is what the backend answers when called.

\* A NavView that asks the backend again after a failed call.
QueryResolver_NavView_Retries(a, out) ==
    LET c == BackendCall("NavView", 0, 0, 0, <<>>, out) IN
    [calls |-> IF out.err # NoErr THEN <<c, c>> ELSE <<c>>,
     res |-> IF out.err # NoErr THEN NilResult(out.err)
             ELSE navViewConnectionResolver(out.rangeViews)]

QueryResolver_NavView(a, out) ==
    [calls |-> <<BackendCall("NavView", 0, 0, 0, <<>>, out)>>,
     res |-> IF out.err # NoErr THEN NilResult(out.err)
             ELSE navViewConnectionResolver(out.rangeViews)]

navRangeResolver_Definitions(rangeView) ==
    [calls |-> <<>>,
     res |-> NewLocationConnectionResolver(rangeView.definitions, <<>>)]

\* A range's References answering with an empty connection.
navRangeResolver_References_Empty(rangeView) ==
    [calls |-> <<>>, res |-> NewLocationConnectionResolver(<<>>, <<>>)]

navRangeResolver_References(rangeView) ==
    [calls |-> <<>>, res |-> NilResult(ErrUnimplemented)]

navRangeResolver_Hover(rangeView) ==
    [calls |-> <<>>,
     res |-> NewHoverResolver(rangeView.hoverText, convertRange(rangeView.hoverRange))]

\* A Definitions that treats an empty answer as Hover treats a missing one.
QueryResolver_Definitions_NilOnEmpty(a, out) ==
    [calls |-> <<BackendCall("Definitions", a.line, a.character, 0, <<>>, out)>>,
     res |-> IF out.err # NoErr \/ out.locations = <<>> THEN NilResult(out.err)
             ELSE NewLocationConnectionResolver(out.locations, <<>>)]

QueryResolver_Definitions(a, out) ==
    [calls |-> <<BackendCall("Definitions", a.line, a.character, 0, <<>>, out)>>,
     res |-> IF out.err # NoErr THEN NilResult(out.err)
             ELSE NewLocationConnectionResolver(out.locations, <<>>)]

\* A References that always asks the backend for the first page.
QueryResolver_References_DropsCursor(a, fail) ==
    LET limit == derefInt32(a.first, DefaultReferencesPageSize) IN
    IF limit <= 0 THEN [calls |-> <<>>, res |-> NilResult(ErrIllegalLimit)]
    ELSE
    LET dec == decodeCursor(a.after) IN
    IF dec.err # NoErr THEN [calls |-> <<>>, res |-> NilResult(dec.err)]
    ELSE
    LET out == BackendReferences(a.bundle, a.line, a.character, limit, <<>>, fail) IN
    [calls |-> <<BackendCall("References", a.line, a.character, limit, <<>>, out)>>,
     res |-> IF out.err # NoErr THEN NilResult(out.err)
             ELSE NewLocationConnectionResolver(out.locations, strPtr(out.cursor))]

\* A References that ignores the First argument.
QueryResolver_References_AlwaysDefault(a, fail) ==
    LET limit == DefaultReferencesPageSize IN
    IF limit <= 0 THEN [calls |-> <<>>, res |-> NilResult(ErrIllegalLimit)]
    ELSE
    LET dec == decodeCursor(a.after) IN
    IF dec.err # NoErr THEN [calls |-> <<>>, res |-> NilResult(dec.err)]
    ELSE
    LET out == BackendReferences(a.bundle, a.line, a.character, limit, dec.val, fail) IN
    [calls |-> <<BackendCall("References", a.line, a.character, limit, dec.val, out)>>,
     res |-> IF out.err # NoErr THEN NilResult(out.err)
             ELSE NewLocationConnectionResolver(out.locations, strPtr(out.cursor))]

\* A References that goes on after a cursor that failed to decode.
QueryResolver_References_IgnoresDecodeErr(a, fail) ==
    LET limit == derefInt32(a.first, DefaultReferencesPageSize) IN
    IF limit <= 0 THEN [calls |-> <<>>, res |-> NilResult(ErrIllegalLimit)]
    ELSE
    LET dec == decodeCursor(a.after) IN
    IF FALSE THEN [calls |-> <<>>, res |-> NilResult(dec.err)]
    ELSE
    LET out == BackendReferences(a.bundle, a.line, a.character, limit, dec.val, fail) IN
    [calls |-> <<BackendCall("References", a.line, a.character, limit, dec.val, out)>>,
     res |-> IF out.err # NoErr THEN NilResult(out.err)
             ELSE NewLocationConnectionResolver(out.locations, strPtr(out.cursor))]

\* A References that hands the caller the cursor it was given instead of the
\* one the backend returned.
QueryResolver_References_StaleCursor(a, fail) ==
    LET limit == derefInt32(a.first, DefaultReferencesPageSize) IN
    IF limit <= 0 THEN [calls |-> <<>>, res |-> NilResult(ErrIllegalLimit)]
    ELSE
    LET dec == decodeCursor(a.after) IN
    IF dec.err # NoErr THEN [calls |-> <<>>, res |-> NilResult(dec.err)]
    ELSE
    LET out == BackendReferences(a.bundle, a.line, a.character, limit, dec.val, fail) IN
    [calls |-> <<BackendCall("References", a.line, a.character, limit, dec.val, out)>>,
     res |-> IF out.err # NoErr THEN NilResult(out.err)
             ELSE NewLocationConnectionResolver(out.locations, strPtr(dec.val))]

\* A References that answers a failed backend call with an empty connection.
QueryResolver_References_SwallowsErr(a, fail) ==
    LET limit == derefInt32(a.first, DefaultReferencesPageSize) IN
    IF limit <= 0 THEN [calls |-> <<>>, res |-> NilResult(ErrIllegalLimit)]
    ELSE
    LET dec == decodeCursor(a.after) IN
    IF dec.err # NoErr THEN [calls |-> <<>>, res |-> NilResult(dec.err)]
    ELSE
    LET out == BackendReferences(a.bundle, a.line, a.character, limit, dec.val, fail) IN
    [calls |-> <<BackendCall("References", a.line, a.character, limit, dec.val, out)>>,
     res |-> NewLocationConnectionResolver(out.locations, strPtr(out.cursor))]

\* A References that insists on an After argument.
QueryResolver_References_RequiresCursor(a, fail) ==
    LET limit == derefInt32(a.first, DefaultReferencesPageSize) IN
    IF limit <= 0 THEN [calls |-> <<>>, res |-> NilResult(ErrIllegalLimit)]
    ELSE
    LET dec == decodeCursor(a.after) IN
    IF dec.err # NoErr \/ a.after = <<>> THEN [calls |-> <<>>, res |-> NilResult(ErrDecode)]
    ELSE
    LET out == BackendReferences(a.bundle, a.line, a.character, limit, dec.val, fail) IN
    [calls |-> <<BackendCall("References", a.line, a.character, limit, dec.val, out)>>,
     res |-> IF out.err # NoErr THEN NilResult(out.err)
             ELSE NewLocationConnectionResolver(out.locations, strPtr(out.cursor))]

QueryResolver_References(a, fail) ==
    LET limit == derefInt32(a.first, DefaultReferencesPageSize) IN
    IF limit <= 0 THEN [calls |-> <<>>, res |-> NilResult(ErrIllegalLimit)]
    ELSE
    LET dec == decodeCursor(a.after) IN
    IF dec.err # NoErr THEN [calls |-> <<>>, res |-> NilResult(dec.err)]
    ELSE
    LET out == BackendReferences(a.bundle, a.line, a.character, limit, dec.val, fail) IN
    [calls |-> <<BackendCall("References", a.line, a.character, limit, dec.val, out)>>,
     res |-> IF out.err # NoErr THEN NilResult(out.err)
             ELSE NewLocationConnectionResolver(out.locations, strPtr(out.cursor))]

\* A Hover whose guard is a conjunction.
QueryResolver_Hover_AndGuard(a, out) ==
    [calls |-> <<BackendCall("Hover", a.line, a.character, 0, <<>>, out)>>,
     res |-> IF out.err # NoErr /\ ~out.exists THEN NilResult(out.err)
             ELSE NewHoverResolver(out.text, convertRange(out.range))]

QueryResolver_Hover(a, out) ==
    [calls |-> <<BackendCall("Hover", a.line, a.character, 0, <<>>, out)>>,
     res |-> IF out.err # NoErr \/ ~out.exists THEN NilResult(out.err)
             ELSE NewHoverResolver(out.text, convertRange(out.range))]

\* A Diagnostics that lets a zero limit through.
QueryResolver_Diagnostics_LimitOffByOne(a, fail) ==
    LET limit == derefInt32(a.first, DefaultDiagnosticsPageSize) IN
    IF limit < 0 THEN [calls |-> <<>>, res |-> NilResult(ErrIllegalLimit)]
    ELSE
    LET out == BackendDiagnostics(a.bundle, limit, fail) IN
    [calls |-> <<BackendCall("Diagnostics", 0, 0, limit, <<>>, out)>>,
     res |-> IF out.err # NoErr THEN NilResult(out.err)
             ELSE NewDiagnosticConnectionResolver(out.diagnostics, out.totalCount)]

\* A Diagnostics that asks the backend for a default page whatever the limit.
QueryResolver_Diagnostics_DefaultPage(a, fail) ==
    LET limit == derefInt32(a.first, DefaultDiagnosticsPageSize) IN
    IF limit <= 0 THEN [calls |-> <<>>, res |-> NilResult(ErrIllegalLimit)]
    ELSE
    LET out == BackendDiagnostics(a.bundle, DefaultDiagnosticsPageSize, fail) IN
    [calls |-> <<BackendCall("Diagnostics", 0, 0, limit, <<>>, out)>>,
     res |-> IF out.err # NoErr THEN NilResult(out.err)
             ELSE NewDiagnosticConnectionResolver(out.diagnostics, out.totalCount)]

QueryResolver_Diagnostics(a, fail) ==
    LET limit == derefInt32(a.first, DefaultDiagnosticsPageSize) IN
    IF limit <= 0 THEN [calls |-> <<>>, res |-> NilResult(ErrIllegalLimit)]
    ELSE
    LET out == BackendDiagnostics(a.bundle, limit, fail) IN
    [calls |-> <<BackendCall("Diagnostics", 0, 0, limit, <<>>, out)>>,
     res |-> IF out.err # NoErr THEN NilResult(out.err)
             ELSE NewDiagnosticConnectionResolver(out.diagnostics, out.totalCount)]

\* ------------------------------------------------- the location resolver
Queries == 1..MaxQueries

Paths == 1..((MaxRefs + 1) \div 2)

Keys == Bundles \X Paths

NoHolder == <<0, 0>>

NoEntry == [present |-> FALSE, ok |-> FALSE, repository |-> 0, commit |-> 0]

\* The commit-resolution lookup: a function of the immutable bundle.
ResolveCommit(key) ==
    IF key \in unresolvable
    THEN [present |-> TRUE, ok |-> FALSE, repository |-> 0, commit |-> 0]
    ELSE [present |-> TRUE, ok |-> TRUE, repository |-> key[1], commit |-> 100 + key[1]]

\* A memo key that leaves out the bundle.
MemoKey_PathOnly(raw) == <<1, raw.path>>

MemoKey(raw) == <<raw.dumpID, raw.path>>

\* The Location of a RawLocation given its key's memo entry; ok = FALSE is the
\* resolution error of that entry.
Location(raw, entry) ==
    [ok |-> entry.ok, repository |-> entry.repository, commit |-> entry.commit,
     path |-> raw.path, range |-> raw.range]

Pending == [ok |-> FALSE, repository |-> -1, commit |-> -1, path |-> 0, range |-> 0]

FirstPending(out) == CHOOSE i \in 1..Len(out) : out[i] = Pending /\ \A j \in 1..(i - 1) : out[j] # Pending

\* Results collected in the order in which the resolutions complete.
Place_CompletionOrder(out, i, loc) == [out EXCEPT ![FirstPending(out)] = loc]

\* The result of resolving the i-th input goes to the i-th output.
Place(out, i, loc) == [out EXCEPT ![i] = loc]

\* A resolution that lets go of the lock while it looks the commit up.
MutexAfterMiss_Released(holder) == NoHolder

\* The lock stays held from the check of a key to the write of its entry.
MutexAfterMiss(holder) == holder

\* ------------------------------------------------------ package ratelimit
ErrExceeded == "rate limit exceeded"

\* rate.Limiter.ReserveN without a maximum wait: the reservation is OK whenever
\* n does not exceed the burst size, and an OK reservation takes its n tokens at
\* once, leaving the bucket in debt when it held fewer.
ReserveN(burst, tokens, n) ==
    IF n <= burst THEN [ok |-> TRUE, tokens |-> tokens - n]
    ELSE [ok |-> FALSE, tokens |-> tokens]

\* Cancel of a reservation that is not OK does nothing.
NonBlockingLimiter_Limit(burst, tokens, n) ==
    LET r == ReserveN(burst, tokens, n) IN
    IF r.ok THEN [err |-> NoErr, tokens |-> r.tokens]
    ELSE [err |-> ErrExceeded, tokens |-> r.tokens]

\* Times and durations are counted in tenths of a second.
Millis200 == 2
Second == 10
Minute == 60 * Second
Hour == 60 * Minute

\* time.Time{}; the least duration, which Sub yields for it
ZeroTime == -1000000
MinDuration == -2000000000

IsZero(t) == t = ZeroTime

Sub(t, u) == IF t = ZeroTime THEN MinDuration ELSE t - u

After(t, u) == t > u

Unix(sec) == sec * Second

\* A header value is a string of the symbols 0..9 (the digits), Dash and
\* Letter; "" is the value of a header that is missing.
Dash == 10
Letter == 11

RECURSIVE DecimalValue(_)
DecimalValue(str) ==
    IF str = <<>> THEN 0
    ELSE 10 * DecimalValue(SubSeq(str, 1, Len(str) - 1)) + str[Len(str)]

\* strconv.Atoi, and strconv.ParseInt in base 10: the value and whether the
\* string fails to parse, in which case the value is 0
Atoi(str) ==
    LET neg == str # <<>> /\ str[1] = Dash
        digits == IF neg THEN Tail(str) ELSE str
    IN  IF digits = <<>> \/ \E i \in 1..Len(digits) : digits[i] > 9
        THEN [val |-> 0, err |-> TRUE]
        ELSE [val |-> IF neg THEN 0 - DecimalValue(digits) ELSE DecimalValue(digits),
              err |-> FALSE]

NewMonitor == [known |-> FALSE, limit |-> 0, remaining |-> 0, reset |-> ZeroTime, retry |-> ZeroTime]

Monitor_Get_ReportsLimit(c, now) ==
    [remaining |-> c.limit, reset |-> Sub(c.reset, now), retry |-> Sub(c.retry, now),
     known |-> c.known]

Monitor_Get(c, now) ==
    [remaining |-> c.remaining, reset |-> Sub(c.reset, now), retry |-> Sub(c.retry, now),
     known |-> c.known]

\* The wait computed from the rate limit information; cost > 0.
\* n = 0.8 * limitRemaining / cost is compared without rounding, and
\* time.Duration(0.8 * limitRemaining) drops the fraction.
WaitFromRateLimit(c, cost, now) ==
    LET stale == After(now, c.reset)
        limitRemaining == IF stale THEN c.limit ELSE c.remaining
        resetAt == IF stale THEN now + Hour ELSE c.reset
        timeRemaining == Sub(resetAt, now) + 3 * Minute
    IN  IF 4 * limitRemaining < 5 * cost THEN timeRemaining
        ELSE IF 4 * limitRemaining > 5 * 500 * cost THEN 0
        ELSE IF 4 * limitRemaining > 5 * 250 * cost THEN Millis200
        ELSE (timeRemaining * cost) \div ((4 * limitRemaining) \div 5)

\* A wait that keeps counting from a deadline that has passed.
Monitor_RecommendedWaitForBackgroundOp_KeepsRetry(c, cost, now) ==
    IF ~IsZero(c.retry)
    THEN [mon |-> c, wait |-> Sub(c.retry, now)]
    ELSE [mon |-> c, wait |-> IF ~c.known THEN 0 ELSE WaitFromRateLimit(c, cost, now)]

Monitor_RecommendedWaitForBackgroundOp(c, cost, now) ==
    IF ~IsZero(c.retry) /\ Sub(c.retry, now) > 0
    THEN [mon |-> c, wait |-> Sub(c.retry, now)]
    ELSE LET c1 == [c EXCEPT !.retry = ZeroTime] IN
         [mon |-> c1, wait |-> IF ~c1.known THEN 0 ELSE WaitFromRateLimit(c1, cost, now)]

\* An Update that forgets what it knew when a header fails to parse.
UpdateFields_ForgetsOnError(c, h, now) ==
    LET retry == Atoi(h.retryAfter).val
        c1 == IF retry > 0 THEN [c EXCEPT !.retry = now + retry * Second] ELSE c
    IN  IF Atoi(h.limit).err \/ Atoi(h.remaining).err \/ Atoi(h.reset).err
        THEN [c1 EXCEPT !.known = FALSE, !.limit = 0, !.remaining = 0, !.reset = ZeroTime]
        ELSE [c1 EXCEPT !.known = TRUE, !.limit = Atoi(h.limit).val,
                        !.remaining = Atoi(h.remaining).val,
                        !.reset = Unix(Atoi(h.reset).val)]

\* The headers of a response, by field.
UpdateFields(c, h, now) ==
    LET retry == Atoi(h.retryAfter).val
        c1 == IF retry > 0 THEN [c EXCEPT !.retry = now + retry * Second] ELSE c
        limit == Atoi(h.limit)
        remaining == Atoi(h.remaining)
        resetAtSeconds == Atoi(h.reset)
    IN  IF limit.err \/ remaining.err \/ resetAtSeconds.err
        THEN [c1 EXCEPT !.known = FALSE]
        ELSE [c1 EXCEPT !.known = TRUE, !.limit = limit.val,
                        !.remaining = remaining.val, !.reset = Unix(resetAtSeconds.val)]

\* An Update that looks at Retry-After before it looks at X-From-Cache.
Monitor_Update_RetryFirst(c, h, now) ==
    LET retry == Atoi(h.retryAfter).val
        c1 == IF retry > 0 THEN [c EXCEPT !.retry = now + retry * Second] ELSE c
    IN  IF h.fromCache # <<>> THEN c1 ELSE UpdateFields(c, h, now)

Monitor_Update(c, h, now) ==
    IF h.fromCache # <<>> THEN c ELSE UpdateFields(c, h, now)

\* ------------------------------------------------------------ input sets
FirstArgs == {<<>>} \cup {<<n>> : n \in (-1)..MaxRefs}

IssuedCursors == {encodeString(<<b, k>>) : b \in Bundles, k \in 1..(MaxRefs - 1)}

MalformedCursors == {<<CursorVersion + 1, 2, 2>>, <<CursorVersion, 0, 2>>}

AfterArgs ==
    {<<>>} \cup {<<c>> : c \in {<<>>, encodeString(<<1>>)} \cup IssuedCursors \cup MalformedCursors}

NoArgs == [bundle |-> 1, line |-> 0, character |-> 0, first |-> <<>>, after |-> <<>>]

PositionArgs(b, pos) == [NoArgs EXCEPT !.bundle = b, !.line = pos[1], !.character = pos[2]]

LocationSeqs(b, max) == {LocationsOf(b, n) : n \in 0..max}

DefinitionsResponses(b) ==
    {[locations |-> l, err |-> e] : l \in LocationSeqs(b, MaxDefs), e \in BackendErrs}

HoverResponses ==
    [text : 0..1, range : LsifRanges, exists : BOOLEAN, err : BackendErrs]

RangeView(b, i) ==
    [range |-> <<i, 0, i, 3>>, definitions |-> LocationsOf(b, i - 1),
     hoverText |-> i - 1, hoverRange |-> <<i, 0, i, 3>>]

NavViewResponses(b) ==
    {[rangeViews |-> [i \in 1..n |-> RangeView(b, i)], err |-> e] :
        n \in 0..MaxRanges, e \in BackendErrs}

\* The clock starts 1000 seconds after the Unix epoch.
Epoch == 1000 * Second

\* "2800": half an hour after the start of the clock
HalfHourOn == <<2, 8, 0, 0>>

NoHeaders == [fromCache |-> <<>>, retryAfter |-> <<>>, limit |-> <<>>, remaining |-> <<>>, reset |-> <<>>]

RateLimitHeaders ==
    {[NoHeaders EXCEPT !.limit = <<5, 0, 0, 0>>, !.remaining = r, !.reset = HalfHourOn] :
        r \in {<<1, 5, 0, 0>>, <<4, 0, 0>>, <<0>>}}
    \cup {[NoHeaders EXCEPT !.limit = <<Letter>>, !.remaining = <<4, 0, 0>>, !.reset = HalfHourOn],
          [NoHeaders EXCEPT !.limit = <<5, 0, 0, 0>>, !.reset = HalfHourOn],
          [NoHeaders EXCEPT !.limit = <<5, 0, 0, 0>>, !.remaining = <<4, 0, 0>>, !.reset = <<2, Letter>>]}

\* Retry-After: 10 comes with complete and with incomplete rate limit headers.
RetryAfterHeaders ==
    {[h EXCEPT !.retryAfter = <<1, 0>>] :
        h \in {g \in RateLimitHeaders : g.remaining = <<4, 0, 0>> /\ g.reset = HalfHourOn}}

Headers ==
    {[h EXCEPT !.fromCache = c] :
        h \in RateLimitHeaders \cup RetryAfterHeaders, c \in {<<>>, <<1>>}}

Costs == {1, 500}

NoCall == [op |-> "none", cost |-> 0, at |-> 0, wait |-> 0,
           got |-> Monitor_Get(NewMonitor, 0)]

\* The goroutines calling the Monitor.
Threads == 1..MaxThreads

Unlocked == 0

\* A field still at its zero value; a field a call has not read.
NoUpdate == 0
Unread == 0 - 1

NoResponse == [id |-> NoUpdate, cached |-> FALSE, complete |-> FALSE, retryAfter |-> FALSE]

NothingSeen == [limit |-> Unread, remaining |-> Unread, reset |-> Unread]

\* sync.Mutex.Lock returns once no goroutine holds the mutex.
Lockable_Always(mu) == TRUE

Lockable(mu) == mu = Unlocked

ConcInit ==
    /\ cMu = Unlocked
    /\ cMon = [known |-> FALSE, limit |-> NoUpdate, remaining |-> NoUpdate,
               reset |-> NoUpdate, retry |-> NoUpdate]
    /\ cPc = [t \in Threads |-> "idle"]
    /\ cH = [t \in Threads |-> NoResponse]
    /\ cSeen = [t \in Threads |-> NothingSeen]
    /\ cIssued = 0

LimiterInit ==
    /\ lBurst = 1
    /\ lTokens = 1
    /\ lCall = [n |-> 0, before |-> 1, after |-> 1, err |-> NoErr]

MonitorInit ==
    /\ mon = NewMonitor
    /\ clock = Epoch
    /\ ticks = 0
    /\ mCall = NoCall
    /\ mLast = NoHeaders
    /\ mLastLive = NoHeaders
    /\ mLastGood = NoHeaders
    /\ mRetry = ZeroTime
    /\ mRetryAny = ZeroTime

\* ---------------------------------------------------------------- actions
CacheInit ==
    /\ unresolvable = {}
    /\ qPc = [q \in Queries |-> "idle"]
    /\ qArgs = [q \in Queries |-> NoArgs]
    /\ qConn = [q \in Queries |-> NilResult(NoErr)]
    /\ qOut = [q \in Queries |-> <<>>]
    /\ tPc = [q \in Queries |-> <<>>]
    /\ memo = [k \in Keys |-> NoEntry]
    /\ mutex = NoHolder
    /\ lookups = [k \in Keys |-> 0]

Init ==
    /\ dumpID \in Bundles
    /\ nRefs \in 0..MaxRefs
    /\ nDiags \in 0..MaxDiags
    /\ op = "none"
    /\ args = NoArgs
    /\ res = NilResult(NoErr)
    /\ calls = <<>>
    /\ navOp = <<"none", 0>>
    /\ navRes = NilResult(NoErr)
    /\ pgState = "idle"
    /\ pgAcc = <<>>
    /\ pgPages = <<>>
    /\ CacheInit
    /\ LimiterInit
    /\ MonitorInit
    /\ ConcInit

Invoke(name, a, r) ==
    /\ op' = name
    /\ args' = a
    /\ res' = r.res
    /\ calls' = r.calls
    /\ navOp' = <<"none", 0>>
    /\ navRes' = NilResult(NoErr)
    /\ UNCHANGED <<dumpID, nRefs, nDiags>>
    /\ UNCHANGED <<cacheVars, rateVars>>

NoPaging ==
    /\ pgState' = "idle"
    /\ pgAcc' = <<>>
    /\ pgPages' = <<>>

CallNavView ==
    \E out \in NavViewResponses(dumpID) :
        LET a == PositionArgs(dumpID, <<0, 0>>) IN
        /\ Invoke("NavView", a, QueryResolver_NavView(a, out))
        /\ NoPaging

NavRangeInvoke(name, i, r) ==
    /\ navOp' = <<name, i>>
    /\ navRes' = r.res
    /\ calls' = r.calls
    /\ UNCHANGED <<dumpID, nRefs, nDiags, op, args, res, pgState, pgAcc, pgPages>>
    /\ UNCHANGED <<cacheVars, rateVars>>

CallNavRangeDefinitions ==
    /\ op = "NavView" /\ ~res.isNil
    /\ \E i \in 1..Len(res.rangeViews) :
        NavRangeInvoke("Definitions", i, navRangeResolver_Definitions(res.rangeViews[i]))

CallNavRangeReferences ==
    /\ op = "NavView" /\ ~res.isNil
    /\ \E i \in 1..Len(res.rangeViews) :
        NavRangeInvoke("References", i, navRangeResolver_References(res.rangeViews[i]))

CallNavRangeHover ==
    /\ op = "NavView" /\ ~res.isNil
    /\ \E i \in 1..Len(res.rangeViews) :
        NavRangeInvoke("Hover", i, navRangeResolver_Hover(res.rangeViews[i]))

CallDefinitions ==
    \E pos \in Positions, out \in DefinitionsResponses(dumpID) :
        LET a == PositionArgs(dumpID, pos) IN
        /\ Invoke("Definitions", a, QueryResolver_Definitions(a, out))
        /\ NoPaging

\* A References call; one without a cursor starts a caller's walk over the pages.
CallReferences ==
    \E pos \in Positions, first \in FirstArgs, after \in AfterArgs, fail \in BackendErrs :
        LET a == [PositionArgs(dumpID, pos) EXCEPT !.first = first, !.after = after]
            r == QueryResolver_References(a, fail)
        IN  /\ Invoke("References", a, r)
            /\ IF after # <<>> THEN NoPaging
               ELSE /\ pgState' = IF r.res.err # NoErr THEN "failed"
                                  ELSE IF PageInfo(r.res).hasNextPage THEN "paging"
                                  ELSE "done"
                    /\ pgAcc' = r.res.locations
                    /\ pgPages' = IF r.res.err # NoErr THEN <<>>
                                  ELSE <<Len(r.res.locations)>>

\* The caller asks for the next page with the cursor of the page it just got.
NextPage ==
    /\ pgState = "paging"
    /\ Len(pgPages) <= MaxRefs
    /\ \E fail \in BackendErrs :
        LET a == [args EXCEPT !.after = PageInfo(res).endCursor]
            r == QueryResolver_References(a, fail)
        IN  /\ Invoke("References", a, r)
            /\ pgState' = IF r.res.err # NoErr THEN "failed"
                          ELSE IF PageInfo(r.res).hasNextPage THEN "paging"
                          ELSE "done"
            /\ pgAcc' = pgAcc \o r.res.locations
            /\ pgPages' = IF r.res.err # NoErr THEN pgPages
                          ELSE Append(pgPages, Len(r.res.locations))

CallHover ==
    \E pos \in Positions, out \in HoverResponses :
        LET a == PositionArgs(dumpID, pos) IN
        /\ Invoke("Hover", a, QueryResolver_Hover(a, out))
        /\ NoPaging

CallDiagnostics ==
    \E first \in FirstArgs, fail \in BackendErrs :
        LET a == [NoArgs EXCEPT !.bundle = dumpID, !.first = first] IN
        /\ Invoke("Diagnostics", a, QueryResolver_Diagnostics(a, fail))
        /\ NoPaging

Next ==
    \/ CallNavView
    \/ CallNavRangeDefinitions
    \/ CallNavRangeReferences
    \/ CallNavRangeHover
    \/ CallDefinitions
    \/ CallReferences
    \/ NextPage
    \/ CallHover
    \/ CallDiagnostics

Spec == Init /\ [][Next]_vars

\* ------------------------------------ concurrent queries, one location resolver
QueryIdle ==
    /\ op = "none"
    /\ args = NoArgs
    /\ res = NilResult(NoErr)
    /\ calls = <<>>
    /\ navOp = <<"none", 0>>
    /\ navRes = NilResult(NoErr)
    /\ pgState = "idle"
    /\ pgAcc = <<>>
    /\ pgPages = <<>>

ResolveInit ==
    /\ dumpID = 1
    /\ nRefs = MaxRefs
    /\ nDiags = 0
    /\ QueryIdle
    /\ unresolvable \in {{}, {<<1, 1>>}}
    /\ qPc = [q \in Queries |-> "idle"]
    /\ qArgs = [q \in Queries |-> NoArgs]
    /\ qConn = [q \in Queries |-> NilResult(NoErr)]
    /\ qOut = [q \in Queries |-> <<>>]
    /\ tPc = [q \in Queries |-> <<>>]
    /\ memo = [k \in Keys |-> NoEntry]
    /\ mutex = NoHolder
    /\ lookups = [k \in Keys |-> 0]
    /\ LimiterInit
    /\ MonitorInit
    /\ ConcInit

\* Query q calls References on a resolver bound to bundle b; the locations of
\* the page it gets are then resolved one by one, in any order.
StartQuery(q) ==
    /\ qPc[q] = "idle"
    /\ \E b \in Bundles, first \in {<<1>>, <<2>>}, k \in 0..1 :
        LET after == IF k = 0 THEN <<>> ELSE <<encodeString(<<b, k>>)>>
            a == [PositionArgs(b, SymbolPos) EXCEPT !.first = first, !.after = after]
            r == QueryResolver_References(a, NoErr)
            n == Len(r.res.locations)
        IN  /\ qArgs' = [qArgs EXCEPT ![q] = a]
            /\ qConn' = [qConn EXCEPT ![q] = r.res]
            /\ qOut' = [qOut EXCEPT ![q] = [i \in 1..n |-> Pending]]
            /\ tPc' = [tPc EXCEPT ![q] = [i \in 1..n |-> "todo"]]
            /\ qPc' = [qPc EXCEPT ![q] = "resolving"]
    /\ UNCHANGED <<unresolvable, memo, mutex, lookups>>
    /\ UNCHANGED <<queryVars, rateVars>>

Acquire(q, i) ==
    /\ qPc[q] = "resolving"
    /\ tPc[q][i] = "todo"
    /\ mutex = NoHolder
    /\ mutex' = <<q, i>>
    /\ tPc' = [tPc EXCEPT ![q][i] = "locked"]
    /\ UNCHANGED <<unresolvable, qPc, qArgs, qConn, qOut, memo, lookups>>
    /\ UNCHANGED <<queryVars, rateVars>>

CacheHit(q, i) ==
    LET raw == qConn[q].locations[i] IN
    /\ qPc[q] = "resolving"
    /\ tPc[q][i] = "locked"
    /\ memo[MemoKey(raw)].present
    /\ qOut' = [qOut EXCEPT ![q] = Place(qOut[q], i, Location(raw, memo[MemoKey(raw)]))]
    /\ mutex' = NoHolder
    /\ tPc' = [tPc EXCEPT ![q][i] = "done"]
    /\ UNCHANGED <<unresolvable, qPc, qArgs, qConn, memo, lookups>>
    /\ UNCHANGED <<queryVars, rateVars>>

CacheMiss(q, i) ==
    LET raw == qConn[q].locations[i] IN
    /\ qPc[q] = "resolving"
    /\ tPc[q][i] = "locked"
    /\ ~memo[MemoKey(raw)].present
    /\ mutex' = MutexAfterMiss(mutex)
    /\ tPc' = [tPc EXCEPT ![q][i] = "lookup"]
    /\ UNCHANGED <<unresolvable, qPc, qArgs, qConn, qOut, memo, lookups>>
    /\ UNCHANGED <<queryVars, rateVars>>

Lookup(q, i) ==
    LET raw == qConn[q].locations[i]
        key == MemoKey(raw)
        entry == ResolveCommit(<<raw.dumpID, raw.path>>)
    IN  /\ qPc[q] = "resolving"
        /\ tPc[q][i] = "lookup"
        /\ lookups[key] <= MaxQueries * MaxRefs
        /\ lookups' = [lookups EXCEPT ![key] = @ + 1]
        /\ memo' = [memo EXCEPT ![key] = entry]
        /\ qOut' = [qOut EXCEPT ![q] = Place(qOut[q], i, Location(raw, entry))]
        /\ mutex' = IF mutex = <<q, i>> THEN NoHolder ELSE mutex
        /\ tPc' = [tPc EXCEPT ![q][i] = "done"]
        /\ UNCHANGED <<unresolvable, qPc, qArgs, qConn>>
        /\ UNCHANGED <<queryVars, rateVars>>

Finish(q) ==
    /\ qPc[q] = "resolving"
    /\ \A i \in 1..Len(tPc[q]) : tPc[q][i] = "done"
    /\ qPc' = [qPc EXCEPT ![q] = "done"]
    /\ UNCHANGED <<unresolvable, qArgs, qConn, qOut, tPc, memo, mutex, lookups>>
    /\ UNCHANGED <<queryVars, rateVars>>

ResolveNext ==
    \E q \in Queries :
        \/ StartQuery(q)
        \/ \E i \in 1..Len(tPc[q]) : Acquire(q, i)
        \/ \E i \in 1..Len(tPc[q]) : CacheHit(q, i)
        \/ \E i \in 1..Len(tPc[q]) : CacheMiss(q, i)
        \/ \E i \in 1..Len(tPc[q]) : Lookup(q, i)
        \/ Finish(q)

SpecResolve == ResolveInit /\ [][ResolveNext]_vars

\* ------------------------------------------------- a NonBlockingLimiter
LimitInit ==
    /\ dumpID = 1 /\ nRefs = 0 /\ nDiags = 0
    /\ QueryIdle
    /\ CacheInit
    /\ MonitorInit
    /\ ConcInit
    /\ lBurst \in 1..MaxBurst
    /\ lTokens = lBurst
    /\ lCall = [n |-> 0, before |-> lBurst, after |-> lBurst, err |-> NoErr]

CallLimit ==
    \E n \in 1..(MaxBurst + 1) :
        LET r == NonBlockingLimiter_Limit(lBurst, lTokens, n) IN
        /\ r.tokens >= 0 - MaxDebt
        /\ lTokens' = r.tokens
        /\ lCall' = [n |-> n, before |-> lTokens, after |-> r.tokens, err |-> r.err]
        /\ UNCHANGED <<lBurst, queryVars, cacheVars, monitorVars, concVars>>

\* Time passes and the bucket gains a token.
Refill ==
    /\ lTokens < lBurst
    /\ lTokens' = lTokens + 1
    /\ UNCHANGED <<lBurst, lCall, queryVars, cacheVars, monitorVars, concVars>>

LimitNext == CallLimit \/ Refill

SpecLimit == LimitInit /\ [][LimitNext]_vars

\* ------------------------------------------------------------- a Monitor
MonitorSpecInit ==
    /\ dumpID = 1 /\ nRefs = 0 /\ nDiags = 0
    /\ QueryIdle
    /\ CacheInit
    /\ LimiterInit
    /\ MonitorInit
    /\ ConcInit

Complete(h) == ~Atoi(h.limit).err /\ ~Atoi(h.remaining).err /\ ~Atoi(h.reset).err

CallUpdate ==
    \E h \in Headers :
        /\ mon' = Monitor_Update(mon, h, clock)
        /\ mCall' = [NoCall EXCEPT !.op = "Update", !.at = clock]
        /\ mLast' = h
        /\ mLastLive' = IF h.fromCache = <<>> THEN h ELSE mLastLive
        /\ mLastGood' = IF h.fromCache = <<>> /\ Complete(h) THEN h ELSE mLastGood
        /\ mRetry' = IF h.fromCache = <<>> /\ h.retryAfter = <<1, 0>>
                     THEN clock + 10 * Second ELSE mRetry
        /\ mRetryAny' = IF h.retryAfter = <<1, 0>> THEN clock + 10 * Second ELSE mRetryAny
        /\ UNCHANGED <<clock, ticks, queryVars, cacheVars, limiterVars, concVars>>

CallGet ==
    /\ mCall' = [NoCall EXCEPT !.op = "Get", !.at = clock, !.got = Monitor_Get(mon, clock)]
    /\ UNCHANGED <<mon, clock, ticks, mLast, mLastLive, mLastGood, mRetry, mRetryAny>>
    /\ UNCHANGED <<queryVars, cacheVars, limiterVars, concVars>>

CallRecommendedWaitForBackgroundOp ==
    \E cost \in Costs :
        LET r == Monitor_RecommendedWaitForBackgroundOp(mon, cost, clock) IN
        /\ mon' = r.mon
        /\ mCall' = [NoCall EXCEPT !.op = "Wait", !.cost = cost, !.at = clock, !.wait = r.wait]
        /\ mRetry' = IF mRetry # ZeroTime /\ clock >= mRetry THEN ZeroTime ELSE mRetry
        /\ mRetryAny' = IF mRetryAny # ZeroTime /\ clock >= mRetryAny THEN ZeroTime ELSE mRetryAny
        /\ UNCHANGED <<clock, ticks, mLast, mLastLive, mLastGood>>
        /\ UNCHANGED <<queryVars, cacheVars, limiterVars, concVars>>

Tick ==
    /\ ticks < MaxTicks
    /\ \E d \in {5 * Second, 30 * Minute} : clock' = clock + d
    /\ ticks' = ticks + 1
    /\ UNCHANGED <<mon, mCall, mLast, mLastLive, mLastGood, mRetry, mRetryAny>>
    /\ UNCHANGED <<queryVars, cacheVars, limiterVars, concVars>>

MonitorNext == CallUpdate \/ CallGet \/ CallRecommendedWaitForBackgroundOp \/ Tick

SpecMonitor == MonitorSpecInit /\ [][MonitorNext]_vars

\* ---------------------------------- a Monitor called from several goroutines
ConcSpecInit ==
    /\ dumpID = 1 /\ nRefs = 0 /\ nDiags = 0
    /\ QueryIdle
    /\ CacheInit
    /\ LimiterInit
    /\ MonitorInit
    /\ ConcInit

Others == <<queryVars, cacheVars, limiterVars, monitorVars>>

Goto(t, pc) == cPc' = [cPc EXCEPT ![t] = pc]

\* Update is called with the response of the next API request; a response
\* served from a cache makes it return before it locks.
Update_Call(t) ==
    /\ cPc[t] = "idle"
    /\ cIssued < MaxUpdates
    /\ cIssued' = cIssued + 1
    /\ \E cached \in BOOLEAN, complete \in BOOLEAN, retryAfter \in BOOLEAN :
        /\ cH' = [cH EXCEPT ![t] = IF cached THEN NoResponse
                                   ELSE [id |-> cIssued + 1, cached |-> cached,
                                         complete |-> complete, retryAfter |-> retryAfter]]
        /\ Goto(t, IF cached THEN "idle" ELSE "Update_Lock")
    /\ UNCHANGED <<cMu, cMon, cSeen, Others>>

Get_Call(t) ==
    /\ cPc[t] = "idle"
    /\ Goto(t, "Get_Lock")
    /\ UNCHANGED <<cMu, cMon, cH, cSeen, cIssued, Others>>

Wait_Call(t) ==
    /\ cPc[t] = "idle"
    /\ Goto(t, "Wait_Lock")
    /\ UNCHANGED <<cMu, cMon, cH, cSeen, cIssued, Others>>

\* c.mu.Lock() of the three methods
Lock(t) ==
    /\ cPc[t] \in {"Update_Lock", "Get_Lock", "Wait_Lock"}
    /\ Lockable(cMu)
    /\ cMu' = t
    /\ Goto(t, CASE cPc[t] = "Update_Lock" -> "Update_Retry"
                 [] cPc[t] = "Get_Lock" -> "Get_Remaining"
                 [] OTHER -> "Wait_Retry")
    /\ UNCHANGED <<cMon, cH, cSeen, cIssued, Others>>

\* the deferred c.mu.Unlock(), with which the call returns what it has read
Unlock(t) ==
    /\ cPc[t] = "Unlock"
    /\ cMu' = Unlocked
    /\ cH' = [cH EXCEPT ![t] = NoResponse]
    /\ cSeen' = [cSeen EXCEPT ![t] = NothingSeen]
    /\ Goto(t, "idle")
    /\ UNCHANGED <<cMon, cIssued, Others>>

Update_Retry(t) ==
    /\ cPc[t] = "Update_Retry"
    /\ cMon' = IF cH[t].retryAfter THEN [cMon EXCEPT !.retry = cH[t].id] ELSE cMon
    /\ Goto(t, "Update_Parse")
    /\ UNCHANGED <<cMu, cH, cSeen, cIssued, Others>>

\* the three headers are parsed; the first that fails ends the call
Update_Parse(t) ==
    /\ cPc[t] = "Update_Parse"
    /\ cMon' = IF cH[t].complete THEN cMon ELSE [cMon EXCEPT !.known = FALSE]
    /\ Goto(t, IF cH[t].complete THEN "Update_Known" ELSE "Unlock")
    /\ UNCHANGED <<cMu, cH, cSeen, cIssued, Others>>

Update_Known(t) ==
    /\ cPc[t] = "Update_Known"
    /\ cMon' = [cMon EXCEPT !.known = TRUE]
    /\ Goto(t, "Update_Limit")
    /\ UNCHANGED <<cMu, cH, cSeen, cIssued, Others>>

Update_Limit(t) ==
    /\ cPc[t] = "Update_Limit"
    /\ cMon' = [cMon EXCEPT !.limit = cH[t].id]
    /\ Goto(t, "Update_Remaining")
    /\ UNCHANGED <<cMu, cH, cSeen, cIssued, Others>>

Update_Remaining(t) ==
    /\ cPc[t] = "Update_Remaining"
    /\ cMon' = [cMon EXCEPT !.remaining = cH[t].id]
    /\ Goto(t, "Update_Reset")
    /\ UNCHANGED <<cMu, cH, cSeen, cIssued, Others>>

Update_Reset(t) ==
    /\ cPc[t] = "Update_Reset"
    /\ cMon' = [cMon EXCEPT !.reset = cH[t].id]
    /\ Goto(t, "Unlock")
    /\ UNCHANGED <<cMu, cH, cSeen, cIssued, Others>>

\* Get reads c.remaining and then c.reset for its results
Get_Remaining(t) ==
    /\ cPc[t] = "Get_Remaining"
    /\ cSeen' = [cSeen EXCEPT ![t].remaining = cMon.remaining]
    /\ Goto(t, "Get_Reset")
    /\ UNCHANGED <<cMu, cMon, cH, cIssued, Others>>

Get_Reset(t) ==
    /\ cPc[t] = "Get_Reset"
    /\ cSeen' = [cSeen EXCEPT ![t].reset = cMon.reset]
    /\ Goto(t, "Unlock")
    /\ UNCHANGED <<cMu, cMon, cH, cIssued, Others>>

\* a deadline still ahead ends the call, one that has passed is cleared
Wait_Retry(t) ==
    /\ cPc[t] = "Wait_Retry"
    /\ \/ /\ cMon.retry # NoUpdate
          /\ \E passed \in BOOLEAN :
              /\ cMon' = IF passed THEN [cMon EXCEPT !.retry = NoUpdate] ELSE cMon
              /\ Goto(t, IF passed THEN "Wait_Known" ELSE "Unlock")
       \/ /\ cMon.retry = NoUpdate
          /\ cMon' = cMon
          /\ Goto(t, "Wait_Known")
    /\ UNCHANGED <<cMu, cH, cSeen, cIssued, Others>>

Wait_Known(t) ==
    /\ cPc[t] = "Wait_Known"
    /\ Goto(t, IF cMon.known THEN "Wait_Remaining" ELSE "Unlock")
    /\ UNCHANGED <<cMu, cMon, cH, cSeen, cIssued, Others>>

Wait_Remaining(t) ==
    /\ cPc[t] = "Wait_Remaining"
    /\ cSeen' = [cSeen EXCEPT ![t].remaining = cMon.remaining]
    /\ Goto(t, "Wait_Reset")
    /\ UNCHANGED <<cMu, cMon, cH, cIssued, Others>>

\* c.reset is read, and c.limit as well when the reset time has passed
Wait_Reset(t) ==
    /\ cPc[t] = "Wait_Reset"
    /\ cSeen' = [cSeen EXCEPT ![t].reset = cMon.reset]
    /\ \E stale \in BOOLEAN : Goto(t, IF stale THEN "Wait_Limit" ELSE "Unlock")
    /\ UNCHANGED <<cMu, cMon, cH, cIssued, Others>>

Wait_Limit(t) ==
    /\ cPc[t] = "Wait_Limit"
    /\ cSeen' = [cSeen EXCEPT ![t].limit = cMon.limit]
    /\ Goto(t, "Unlock")
    /\ UNCHANGED <<cMu, cMon, cH, cIssued, Others>>

ConcNext ==
    \E t \in Threads :
        \/ Update_Call(t) \/ Get_Call(t) \/ Wait_Call(t)
        \/ Lock(t) \/ Unlock(t)
        \/ Update_Retry(t) \/ Update_Parse(t) \/ Update_Known(t)
        \/ Update_Limit(t) \/ Update_Remaining(t) \/ Update_Reset(t)
        \/ Get_Remaining(t) \/ Get_Reset(t)
        \/ Wait_Retry(t) \/ Wait_Known(t) \/ Wait_Remaining(t)
        \/ Wait_Reset(t) \/ Wait_Limit(t)

SpecConcurrent == ConcSpecInit /\ [][ConcNext]_vars

\* ------------------------------------------------------------------ claims
EffectiveLimit ==
    IF args.first # <<>> THEN args.first[1]
    ELSE IF op = "References" THEN DefaultReferencesPageSize
    ELSE DefaultDiagnosticsPageSize

Paged == op \in {"References", "Diagnostics"}

Succeeded == res.err = NoErr /\ ~res.isNil

\* The references the bound bundle holds at the position of the last call.
Matching ==
    IF <<args.line, args.character>> = SymbolPos THEN LocationsOf(dumpID, nRefs) ELSE <<>>

\* C1: a References or Diagnostics call whose effective limit is <= 0 returns
\* ErrIllegalLimit and no result, and makes no backend call.
C1_IllegalLimitRejected ==
    (Paged /\ EffectiveLimit <= 0) =>
        /\ res.err = ErrIllegalLimit
        /\ res.isNil
        /\ calls = <<>>

C1_Witness ==
    /\ op = "Diagnostics"
    /\ args.first = <<0>>
    /\ res.err = ErrIllegalLimit
    /\ nDiags > 0

\* C2: following the returned cursors from a call without cursor until no cursor
\* is returned collects every matching reference exactly once, in the backend's
\* order; with 3 references and limit 2 the pages hold 2 and then 1 locations,
\* the first with a cursor and the second without.
C2_PaginationComplete ==
    /\ pgState = "done" => pgAcc = Matching
    /\ pgState = "paging" =>
        /\ Len(pgAcc) < Len(Matching)
        /\ pgAcc = SubSeq(Matching, 1, Len(pgAcc))
        /\ PageInfo(res).endCursor # <<>>
    /\ (pgState \in {"paging", "done"} /\ Len(Matching) = 3 /\ args.first = <<2>>) =>
        \/ pgPages = <<2>> /\ pgState = "paging" /\ PageInfo(res).endCursor # <<>>
        \/ pgPages = <<2, 1>> /\ pgState = "done" /\ PageInfo(res).endCursor = <<>>

C2_Witness ==
    /\ pgState = "done"
    /\ pgPages = <<2, 1>>
    /\ pgAcc = LocationsOf(dumpID, 3)

\* C3: a successful References call with limit > 0 returns at most limit
\* locations; a successful Diagnostics call returns at most limit diagnostics
\* together with the number of diagnostics of the bundle, whatever the limit.
C3_PageWithinLimit ==
    /\ (op = "References" /\ Succeeded) => Len(res.locations) <= EffectiveLimit
    /\ (op = "Diagnostics" /\ Succeeded) =>
        /\ Len(res.diagnostics) <= EffectiveLimit
        /\ res.totalCount = nDiags

C3_Witness ==
    /\ op = "Diagnostics"
    /\ Succeeded
    /\ Len(res.diagnostics) = 1
    /\ res.totalCount = 2

\* C4: without a First argument References and Diagnostics pass limit 100 to the
\* backend; with a positive First argument n they pass exactly n.
C4_LimitPassedToBackend ==
    LET expected == IF args.first = <<>> THEN 100 ELSE args.first[1] IN
    (Paged /\ expected > 0 /\ decodeCursor(args.after).err = NoErr) =>
        /\ Len(calls) = 1
        /\ calls[1].op = op
        /\ calls[1].limit = expected

C4_Witness ==
    /\ op = "References"
    /\ args.first = <<>>
    /\ calls # <<>>
    /\ calls[1].limit = 100
    /\ Len(res.locations) = 3

\* C5 as claimed: a References call with a malformed cursor returns the decode
\* error and no result, and makes no backend call.
C5_MalformedCursorDecodeError ==
    (op = "References" /\ decodeCursor(args.after).err # NoErr) =>
        /\ res.err = decodeCursor(args.after).err
        /\ res.isNil
        /\ calls = <<>>

\* C5 as amended: a References call with a malformed cursor returns no result
\* and makes no backend call; it returns the decode error when its effective
\* limit is > 0 and ErrIllegalLimit when its effective limit is <= 0.
C5_MalformedCursorRejected ==
    (op = "References" /\ decodeCursor(args.after).err # NoErr) =>
        /\ res.err = IF EffectiveLimit > 0 THEN decodeCursor(args.after).err
                     ELSE ErrIllegalLimit
        /\ res.isNil
        /\ calls = <<>>

C5_Witness ==
    /\ op = "References"
    /\ args.after \in {<<c>> : c \in MalformedCursors}
    /\ args.first = <<2>>
    /\ res.err = ErrDecode

\* C6: Hover returns no content and no error when the backend reports no hover
\* and no error, and no content and the backend's error when the backend fails,
\* whatever the exists flag.
C6_HoverNotFoundIsNotFailure ==
    (op = "Hover") =>
        /\ Len(calls) = 1
        /\ (calls[1].out.err = NoErr /\ ~calls[1].out.exists) =>
               (res.isNil /\ res.err = NoErr)
        /\ calls[1].out.err # NoErr =>
               (res.isNil /\ res.err # NoErr /\ res.err = calls[1].out.err)

C6_Witness ==
    /\ op = "Hover"
    /\ calls[1].out.err = NoErr
    /\ ~calls[1].out.exists
    /\ calls[1].out.text = 1
    /\ res.isNil

\* C7: Definitions returns a connection with an empty location list and no
\* cursor, and no error, when the backend returns no location and no error.
C7_DefinitionsEmptyIsSuccess ==
    (op = "Definitions" /\ calls[1].out.err = NoErr /\ calls[1].out.locations = <<>>) =>
        /\ Succeeded
        /\ res.kind = "locations"
        /\ res.locations = <<>>
        /\ PageInfo(res).endCursor = <<>>
        /\ ~PageInfo(res).hasNextPage

C7_Witness ==
    /\ op = "Definitions"
    /\ calls[1].out.err = NoErr
    /\ calls[1].out.locations = <<>>
    /\ <<args.line, args.character>> = <<0, 0>>
    /\ ~res.isNil

\* C8: on every range of a NavView result References returns the unimplemented
\* error and no connection, while Definitions and Hover succeed with the data of
\* the range view and make no backend call.
C8_NavRangeReferencesUnimplemented ==
    LET rv == res.rangeViews[navOp[2]] IN
    /\ navOp[1] = "References" =>
        /\ navRes.err = ErrUnimplemented
        /\ navRes.isNil
        /\ calls = <<>>
    /\ navOp[1] = "Definitions" =>
        /\ navRes.err = NoErr /\ ~navRes.isNil
        /\ navRes.locations = rv.definitions
        /\ navRes.cursor = <<>>
        /\ calls = <<>>
    /\ navOp[1] = "Hover" =>
        /\ navRes.err = NoErr /\ ~navRes.isNil
        /\ navRes.text = rv.hoverText
        /\ navRes.range = convertRange(rv.hoverRange)
        /\ calls = <<>>

C8_Witness ==
    /\ navOp = <<"References", 2>>
    /\ navRes.err = ErrUnimplemented
    /\ Len(res.rangeViews) = 2

\* C9: an invocation of NavView, Definitions, References, Hover or Diagnostics
\* makes at most one backend call, of the corresponding operation, and returns
\* that call's error and no result when the call fails.
C9_NoRetry ==
    /\ Len(calls) <= 1
    /\ calls # <<>> =>
        /\ calls[1].op = op
        /\ calls[1].out.err # NoErr => (res.err = calls[1].out.err /\ res.isNil)

C9_Witness ==
    /\ op = "NavView"
    /\ Len(calls) = 1
    /\ calls[1].out.err = ErrBundleNotFound
    /\ res.err = ErrBundleNotFound

ForeignCursors == {encodeString(<<b, k>>) : b \in Bundles \ {dumpID}, k \in 1..(MaxRefs - 1)}

C12_AbsentCursorStartsAtFirst ==
    (op = "References" /\ args.after \in {<<>>, << <<>> >>} /\ EffectiveLimit > 0) =>
        /\ decodeCursor(args.after) = [val |-> <<>>, err |-> NoErr]
        /\ Len(calls) = 1
        /\ calls[1].cursor = <<>>
        /\ res.err # ErrDecode
        /\ calls[1].out.err = NoErr =>
            /\ Succeeded
            /\ res.locations = SubSeq(Matching, 1, Min(EffectiveLimit, Len(Matching)))

C12_Witness ==
    /\ op = "References"
    /\ args.after = << <<>> >>
    /\ args.first = <<2>>
    /\ Succeeded
    /\ res.locations = LocationsOf(dumpID, 2)
    /\ nRefs = 3

\* What the commit-resolution collaborator answers for a RawLocation.
Resolved(raw) == Location(raw, ResolveCommit(<<raw.dumpID, raw.path>>))

Slots == {<<q, i>> \in Queries \X (1..MaxRefs) : i <= Len(tPc[q]) /\ tPc[q][i] = "done"}

\* C13: on one location resolver the commit of each (bundle, path) key is looked
\* up at most once, whatever the interleaving of the resolutions, and all
\* resolutions of the same RawLocation yield the same Location.
C13_OneLookupPerKey ==
    /\ \A k \in Keys : lookups[k] <= 1
    /\ \A s \in Slots, t \in Slots :
        qConn[s[1]].locations[s[2]] = qConn[t[1]].locations[t[2]] =>
            qOut[s[1]][s[2]] = qOut[t[1]][t[2]]

C13_Witness ==
    /\ \A q \in Queries : qPc[q] = "done" /\ Len(qOut[q]) = 2
    /\ qArgs[1].bundle = qArgs[2].bundle
    /\ qArgs[1].after # qArgs[2].after
    /\ lookups[<<qArgs[1].bundle, 1>>] = 1
    /\ lookups[<<qArgs[1].bundle, 2>>] = 1

\* C14: the resolved locations of a query are one per RawLocation of its page,
\* the i-th being the resolution of the i-th, in whatever order the resolutions
\* completed.
C14_ResolveKeepsOrder ==
    \A q \in Queries :
        /\ Len(qOut[q]) = Len(qConn[q].locations)
        /\ \A i \in 1..Len(qOut[q]) :
            \/ tPc[q][i] # "done" /\ qOut[q][i] = Pending
            \/ tPc[q][i] = "done" /\ qOut[q][i] = Resolved(qConn[q].locations[i])

C14_Witness ==
    \E q \in Queries :
        /\ qPc[q] = "resolving"
        /\ Len(qOut[q]) = 2
        /\ tPc[q][1] # "done"
        /\ tPc[q][2] = "done"
        /\ qOut[q][2].range = qConn[q].locations[2].range

\* The page query q gets when it runs alone: the limit references after its
\* cursor's offset, resolved, and the cursor of the next page.
RunAlone(q) ==
    LET all == LocationsOf(qArgs[q].bundle, nRefs)
        off == IF qArgs[q].after = <<>> THEN 0 ELSE decodeCursor(qArgs[q].after).val[2]
        end == Min(off + qArgs[q].first[1], Len(all))
    IN  [locations |-> [i \in 1..(end - off) |-> Resolved(all[off + i])],
         cursor |-> IF end < Len(all) THEN <<encodeString(<<qArgs[q].bundle, end>>)>> ELSE <<>>]

\* C15: each of several References queries running concurrently returns the
\* page, the order and the next cursor it returns when it runs alone.
C15_QueriesIndependent ==
    \A q \in Queries :
        qPc[q] = "done" =>
            /\ qConn[q].err = NoErr
            /\ qOut[q] = RunAlone(q).locations
            /\ PageInfo(qConn[q]).endCursor = RunAlone(q).cursor

C15_Witness ==
    /\ \A q \in Queries : qPc[q] = "done"
    /\ qArgs[1].bundle = qArgs[2].bundle
    /\ qArgs[1].first = <<2>> /\ qArgs[1].after = <<>>
    /\ qArgs[2].first = <<1>> /\ qArgs[2].after # <<>>
    /\ qOut[2] = <<qOut[1][2]>>
    /\ PageInfo(qConn[2]).endCursor = <<encodeString(<<qArgs[2].bundle, 2>>)>>


\* C16: Limit(n) returns ErrExceeded whenever the token bucket does not hold n
\* tokens and nil otherwise, and a call that returns ErrExceeded consumes no
\* tokens.
C16_LimitRefusesWhenShort ==
    lCall.n > 0 =>
        /\ lCall.before < lCall.n => lCall.err = ErrExceeded
        /\ lCall.before >= lCall.n => lCall.err = NoErr
        /\ lCall.err = ErrExceeded => lCall.after = lCall.before

\* The constant added to the time remaining.
SmallConstant == 3 * Minute

\* A call of RecommendedWaitForBackgroundOp has returned, on rate limit
\* information that is known and current, with no Retry-After deadline pending
\* and a remaining limit that allows the operation.
WaitOnCurrentInfo ==
    /\ mCall.op = "Wait"
    /\ mon.known
    /\ ~After(mCall.at, mon.reset)
    /\ IsZero(mon.retry)
    /\ mon.remaining >= mCall.cost

\* C17: on known and current rate limit information, with no Retry-After
\* deadline pending, the recommended wait is the time until the reset divided
\* by the number of cost-sized operations the remaining limit allows (counting
\* the intervals either as the doc comment or as the quotient does), plus a
\* small constant; for a reset 30 minutes away, 1,500 points remaining and
\* cost 500 it is 7.5 minutes plus a small constant.
C17_EvenlySpacedUntilReset ==
    WaitOnCurrentInfo =>
        LET untilReset == Sub(mon.reset, mCall.at)
            ops == mon.remaining \div mCall.cost
        IN  /\ mCall.wait >= untilReset \div (ops + 1)
            /\ mCall.wait <= untilReset \div ops + SmallConstant
            /\ (untilReset = 30 * Minute /\ mon.remaining = 1500 /\ mCall.cost = 500) =>
                   /\ mCall.wait >= (15 * Minute) \div 2
                   /\ mCall.wait <= (15 * Minute) \div 2 + SmallConstant

\* What Get reports of a response's headers at time now.
RemainingOf(h) == Atoi(h.remaining).val

ResetOf(h, now) == IF h = NoHeaders THEN MinDuration ELSE Unix(Atoi(h.reset).val) - now

\* The claim C18 as first stated: Get reports the status of the last response
\* given to Update, whichever it was: known tells whether it carried the rate
\* limit headers, and remaining and reset are those of its headers.
C18_GetReportsLastResponse ==
    mCall.op = "Get" =>
        /\ mCall.got.known = Complete(mLast)
        /\ Complete(mLast) =>
               /\ mCall.got.remaining = RemainingOf(mLast)
               /\ mCall.got.reset = ResetOf(mLast, mCall.at)
        /\ mCall.got.retry = Sub(mRetry, mCall.at)

\* C18: Get reports the status as of the last response that was not served
\* from a cache: known tells whether that response carried all three rate limit
\* headers, remaining and reset are those of the last such response that
\* carried them (zero before there is one), and retry is the duration until the
\* pending Retry-After deadline.
C18_GetReportsLastLiveResponse ==
    mCall.op = "Get" =>
        /\ mCall.got.known = Complete(mLastLive)
        /\ mCall.got.remaining = RemainingOf(mLastGood)
        /\ mCall.got.reset = ResetOf(mLastGood, mCall.at)
        /\ mCall.got.retry = Sub(mRetry, mCall.at)

\* Get after a cached response whose headers differ from those of the live
\* response before it, a Retry-After deadline pending.
C18_Witness ==
    /\ mCall.op = "Get"
    /\ mLast.fromCache # <<>>
    /\ Complete(mLast)
    /\ Complete(mLastLive)
    /\ RemainingOf(mLast) # RemainingOf(mLastLive)
    /\ mCall.got.remaining = 1500
    /\ mCall.got.known
    /\ mCall.got.retry = 5 * Second

\* What a call of RecommendedWaitForBackgroundOp that has returned must have
\* done, given the Retry-After deadline still pending after it: wait for the
\* deadline while there is one, or else have cleared the deadline and computed
\* the wait from the rate limit information.
WaitHonours(deadline) ==
    mCall.op = "Wait" =>
        IF ~IsZero(deadline)
        THEN /\ mCall.at < deadline
             /\ mCall.wait = deadline - mCall.at
        ELSE /\ IsZero(mon.retry)
             /\ mCall.wait = IF mon.known THEN WaitFromRateLimit(mon, mCall.cost, mCall.at) ELSE 0

\* The claim C19 as first stated: after an Update with any response whose
\* Retry-After is a positive number of seconds, every call before the deadline
\* returns the time remaining until it, and the first call at or after it
\* clears it and computes the wait from the rate limit information.
C19_RetryAfterHonoured == WaitHonours(mRetryAny)

\* C19: the same, of the responses that were not served from a cache.
C19_LiveRetryAfterHonoured == WaitHonours(mRetry)

\* A call 5 seconds into a 10 second Retry-After, for cost 500 and with the
\* rate limit unknown.
C19_Witness ==
    /\ mCall.op = "Wait"
    /\ mCall.cost = 500
    /\ ~mon.known
    /\ ~IsZero(mRetry)
    /\ mCall.wait = 5 * Second

\* C20: Update with a response carrying a non-empty X-From-Cache header leaves
\* known, limit, remaining, reset and retry as they were, whatever its other
\* headers.
C20_CachedResponseIgnored ==
    [][(mCall'.op = "Update" /\ mLast'.fromCache # <<>>) => mon' = mon]_vars

\* Update has returned from a cached response that carries a Retry-After and
\* rate limit headers other than the ones the monitor knows.
C20_Witness ==
    /\ mCall.op = "Update"
    /\ mLast.fromCache # <<>>
    /\ mLast.retryAfter = <<1, 0>>
    /\ Complete(mLast)
    /\ mon.known
    /\ mon.remaining # RemainingOf(mLast)
    /\ IsZero(mon.retry)

\* Update has returned from a response that was not served from a cache and in
\* which one of the three rate limit headers is missing or fails to parse.
IncompleteUpdate == mCall'.op = "Update" /\ mLast'.fromCache = <<>> /\ ~Complete(mLast')

\* C21: Update with such a response sets known to false and leaves limit,
\* remaining and reset as they were; and a call of
\* RecommendedWaitForBackgroundOp that finds known false and no retry deadline
\* pending returns 0, whatever the cost.
C21_IncompleteHeadersUnknown ==
    /\ [][IncompleteUpdate =>
            /\ ~mon'.known
            /\ mon'.limit = mon.limit
            /\ mon'.remaining = mon.remaining
            /\ mon'.reset = mon.reset]_vars
    /\ []((mCall.op = "Wait" /\ ~mon.known /\ IsZero(mRetry)) => mCall.wait = 0)

\* A cost-500 call returns 0 after a response without a parseable
\* RateLimit-Limit has made unknown what an earlier response told, the
\* remaining limit of 1,500 still stored.
C21_Witness ==
    /\ mCall.op = "Wait"
    /\ mCall.cost = 500
    /\ mCall.wait = 0
    /\ ~mon.known
    /\ mon.remaining = 1500
    /\ Atoi(mLastLive.limit).err
    /\ IsZero(mRetry)

\* The values read, or stored, of limit, remaining and reset come from one
\* Update call.
FromOneUpdate(f) ==
    \A a, b \in {f.limit, f.remaining, f.reset} : a # Unread /\ b # Unread => a = b

\* An Update call is between its first and its last write of the three fields.
MidWrite == \E t \in Threads : cPc[t] \in {"Update_Remaining", "Update_Reset"}

\* C22: under every interleaving of concurrent Update, Get and
\* RecommendedWaitForBackgroundOp calls, the stored limit, remaining and reset
\* come from one and the same Update call, save while that call, holding the
\* mutex, is writing them, and what a reader has read of them is never mixed
\* from two responses.
C22_FieldsFromOneUpdate ==
    /\ ~MidWrite => FromOneUpdate(cMon)
    /\ \A t \in Threads : FromOneUpdate(cSeen[t])

\* A call has read all three fields, written by the second Update, while the
\* next Update waits for the mutex.
C22_Witness ==
    \E t, u \in Threads :
        /\ cPc[t] = "Unlock"
        /\ cSeen[t] = [limit |-> 2, remaining |-> 2, reset |-> 2]
        /\ cPc[u] = "Update_Lock"
        /\ cH[u].id = 3
====
